---- MODULE Spec2Model ----
(***************************************************************************)
(* looptrack: the replica exchange engine (src/src/cloudSync.js) and the   *)
(* part of the local record store it depends on (saveData in              *)
(* src/src/sync.js).                                                       *)
(*                                                                         *)
(* Every machine owns a local data directory; all machines share one cloud *)
(* directory.  A directory is a record [exists, files] where files maps a  *)
(* file name to its content (Absent when there is no such entry).          *)
(***************************************************************************)
EXTENDS Integers, Sequences, FiniteSets, TLC

\* ---------------------------------------------------------------- bounds
\* Highest lastSync stamp a machine's own record file may reach.
MaxSync == 2

\* The machines that run the program.
Machines == {"a", "b"}

\* ------------------------------------------------------------ file names
\* A file name is <<prefix, stem, suffix>>, e.g. <<"usage-", "a", ".json">>.
UsageFile(machineId) == <<"usage-", machineId, ".json">>

\* usage-corrupt.json: a usage file of an identity that is not a running machine.
StrangerFile == UsageFile("corrupt")

\* config.json: an entry of the cloud folder that is not a usage file.
ConfigFile == <<"", "config", ".json">>

Names == {UsageFile(m) : m \in Machines} \cup {StrangerFile, ConfigFile}

\* f.startsWith('usage-') && f.endsWith('.json')
IsUsageFile(f) == f[1] = "usage-" /\ f[3] = ".json"

\* --------------------------------------------------------- file contents
Absent == [kind |-> "absent", owner |-> "-", lastSync |-> 0]

\* A file whose text is not valid JSON ('not valid json {{{', a torn upload).
Torn == [kind |-> "torn", owner |-> "-", lastSync |-> 0]

\* JSON.stringify(data, null, 2) of a record set of `owner` stamped lastSync.
RecordFile(owner, lastSync) == [kind |-> "json", owner |-> owner, lastSync |-> lastSync]

\* JSON.parse(content) returns (TRUE) or throws (FALSE).
ParsesAsJSON(content) == content.kind = "json"

\* ------------------------------------------------------------ filesystem
NoFiles == [n \in Names |-> Absent]

\* fs.existsSync(path.join(dir, name))
ExistsSync(dir, name) == dir.exists /\ dir.files[name] # Absent

\* fs.mkdirSync(dir, { recursive: true })
MkdirSync(dir) == [dir EXCEPT !.exists = TRUE]

\* fs.mkdirSync(dir, { recursive: true }) throws: the directory is missing
\* and cannot be created (blocked: no permission, a read-only volume, a file
\* in the way).
MkdirThrows(dir) == ~dir.exists /\ dir.blocked

\* fs.readdirSync(dir): the listings it may return.  readdirSync promises no
\* order, so every arrangement of the directory's entries is one.
ReaddirSync(dir) ==
  LET entries == {n \in Names : dir.files[n] # Absent}
      k == Cardinality(entries)
  IN {l \in [1..k -> entries] : \A i, j \in 1..k : i # j => l[i] # l[j]}

\* fs.copyFileSync(src/srcName, dst/dstName): throws (ok = FALSE) when the
\* source file or the destination directory is missing.
CopyFileSync(src, srcName, dst, dstName) ==
  IF ExistsSync(src, srcName) /\ dst.exists
  THEN [ok |-> TRUE, dir |-> [dst EXCEPT !.files[dstName] = src.files[srcName]]]
  ELSE [ok |-> FALSE, dir |-> dst]

\* ------------------------------------------------------------ cloudSync.js
\* The outcome of a call: both directories after it, and whether it threw.
Outcome(loc, cloud, raised) == [local |-> loc, cloud |-> cloud, raised |-> raised]

\* PullOne without the try/catch: invalid JSON throws out of syncFromCloud.
PullOne_NoCatch(loc, cloud, file) ==
  LET copied == CopyFileSync(cloud, file, loc, file)
  IN IF ParsesAsJSON(cloud.files[file]) /\ copied.ok
     THEN Outcome(copied.dir, cloud, FALSE)
     ELSE Outcome(loc, cloud, TRUE)

\* try { readFileSync; JSON.parse; copyFileSync } catch { skip }: the body of
\* the pull loop for one file.  Any throw inside the try block (invalid JSON,
\* a copy that fails) is caught and the file is skipped.
PullOne(loc, cloud, file) ==
  LET cloudFile == file
      localFile == file
      copied == CopyFileSync(cloud, cloudFile, loc, localFile)
  IN IF ParsesAsJSON(cloud.files[cloudFile]) /\ copied.ok
     THEN Outcome(copied.dir, cloud, FALSE)
     ELSE Outcome(loc, cloud, FALSE)

\* PullLoop without the test that skips the caller's own file.
RECURSIVE PullLoop_NoSelfSkip(_, _, _, _)
PullLoop_NoSelfSkip(files, loc, cloud, machineId) ==
  IF files = <<>> THEN Outcome(loc, cloud, FALSE)
  ELSE LET r == PullOne(loc, cloud, Head(files))
       IN IF r.raised THEN r ELSE PullLoop_NoSelfSkip(Tail(files), r.local, r.cloud, machineId)

\* PullLoop with `break` in place of `continue`: the loop ends at the
\* caller's own file.
RECURSIVE PullLoop_BreakOnOwn(_, _, _, _)
PullLoop_BreakOnOwn(files, loc, cloud, machineId) ==
  IF files = <<>> \/ Head(files) = UsageFile(machineId) THEN Outcome(loc, cloud, FALSE)
  ELSE LET r == PullOne(loc, cloud, Head(files))
       IN IF r.raised THEN r ELSE PullLoop_BreakOnOwn(Tail(files), r.local, r.cloud, machineId)

\* for (const file of files) { if (file === own) continue; ... }
RECURSIVE PullLoop(_, _, _, _)
PullLoop(files, loc, cloud, machineId) ==
  IF files = <<>> THEN Outcome(loc, cloud, FALSE)
  ELSE IF Head(files) = UsageFile(machineId)
       THEN PullLoop(Tail(files), loc, cloud, machineId)
       ELSE LET r == PullOne(loc, cloud, Head(files))
            IN IF r.raised THEN r ELSE PullLoop(Tail(files), r.local, r.cloud, machineId)

\* syncToCloud with a timestamp comparison: the cloud file is overwritten
\* only when it is missing, unreadable or older than the local one.
SyncToCloud_IfNewer(loc, cloud, machineId) ==
  LET file == UsageFile(machineId)
      made == IF ~cloud.exists THEN MkdirSync(cloud) ELSE cloud
  IN IF /\ ExistsSync(loc, file)
        /\ (ParsesAsJSON(made.files[file]) => made.files[file].lastSync < loc.files[file].lastSync)
     THEN Outcome(loc, CopyFileSync(loc, file, made, file).dir, FALSE)
     ELSE Outcome(loc, made, FALSE)

\* syncToCloud that copies every usage file of the local directory, the
\* pulled copies of peers' files included.
SyncToCloud_PushAll(loc, cloud, machineId) ==
  LET made == IF ~cloud.exists THEN MkdirSync(cloud) ELSE cloud
  IN Outcome(loc,
             [made EXCEPT !.files = [n \in Names |->
                IF IsUsageFile(n) /\ ExistsSync(loc, n) THEN loc.files[n] ELSE made.files[n]]],
             FALSE)

\* syncToCloud that returns right after creating a missing cloud folder.
SyncToCloud_ReturnAfterMkdir(loc, cloud, machineId) ==
  LET file == UsageFile(machineId)
  IN IF ~cloud.exists THEN Outcome(loc, MkdirSync(cloud), FALSE)
     ELSE IF ExistsSync(loc, file)
          THEN Outcome(loc, CopyFileSync(loc, file, cloud, file).dir, FALSE)
          ELSE Outcome(loc, cloud, FALSE)

\* syncToCloud that mirrors the local state: with no local file it removes
\* the cloud's copy.
SyncToCloud_Mirror(loc, cloud, machineId) ==
  LET file == UsageFile(machineId)
      made == IF ~cloud.exists THEN MkdirSync(cloud) ELSE cloud
  IN IF ExistsSync(loc, file)
     THEN Outcome(loc, CopyFileSync(loc, file, made, file).dir, FALSE)
     ELSE Outcome(loc, [made EXCEPT !.files[file] = Absent], FALSE)

\* syncToCloud with the mkdirSync of the cloud folder inside a try/catch that
\* swallows its error.
SyncToCloud_IgnoreMkdirError(loc, cloud, machineId) ==
  LET file == UsageFile(machineId)
      made == IF ~cloud.exists /\ ~MkdirThrows(cloud) THEN MkdirSync(cloud) ELSE cloud
  IN IF ExistsSync(loc, file)
     THEN LET copied == CopyFileSync(loc, file, made, file)
          IN Outcome(loc, copied.dir, ~copied.ok)
     ELSE Outcome(loc, made, FALSE)

\* syncToCloud(localDataDir, cloudDir, machineId).  A throw of mkdirSync
\* (lines 15-17 have no try/catch) leaves the function before the copy.
SyncToCloud(loc, cloud, machineId) ==
  LET localFile == UsageFile(machineId)
      cloudFile == UsageFile(machineId)
      made == IF ~cloud.exists THEN MkdirSync(cloud) ELSE cloud
  IN IF MkdirThrows(cloud) THEN Outcome(loc, cloud, TRUE)
     ELSE IF ExistsSync(loc, localFile)
          THEN LET copied == CopyFileSync(loc, localFile, made, cloudFile)
               IN Outcome(loc, copied.dir, ~copied.ok)
          ELSE Outcome(loc, made, FALSE)

\* syncFromCloud without the mkdirSync of a missing local directory: every
\* copy into it fails inside the try block and is skipped.
SyncFromCloud_NoMkdir(loc, cloud, machineId, listing) ==
  IF ~cloud.exists THEN Outcome(loc, cloud, FALSE)
  ELSE PullLoop(SelectSeq(listing, IsUsageFile), loc, cloud, machineId)

\* syncFromCloud with the mkdirSync of the local directory moved ahead of
\* the test for the cloud folder.
SyncFromCloud_MkdirFirst(loc, cloud, machineId, listing) ==
  LET made == IF ~loc.exists THEN MkdirSync(loc) ELSE loc
  IN IF ~cloud.exists THEN Outcome(made, cloud, FALSE)
     ELSE PullLoop(SelectSeq(listing, IsUsageFile), made, cloud, machineId)

\* syncFromCloud without the filter on the names readdirSync returns.
SyncFromCloud_NoFilter(loc, cloud, machineId, listing) ==
  IF ~cloud.exists THEN Outcome(loc, cloud, FALSE)
  ELSE LET made == IF ~loc.exists THEN MkdirSync(loc) ELSE loc
       IN PullLoop(listing, made, cloud, machineId)

\* syncFromCloud(localDataDir, cloudDir, machineId); listing is what
\* readdirSync(cloudDir) returns.
SyncFromCloud(loc, cloud, machineId, listing) ==
  IF ~cloud.exists THEN Outcome(loc, cloud, FALSE)
  ELSE IF MkdirThrows(loc) THEN Outcome(loc, cloud, TRUE)
  ELSE LET made == IF ~loc.exists THEN MkdirSync(loc) ELSE loc
           files == SelectSeq(listing, IsUsageFile)
       IN PullLoop(files, made, cloud, machineId)

\* syncWithCloud with the two calls swapped: pull first, then push.
SyncWithCloud_PullFirst(loc, cloud, machineId, listing) ==
  LET pull == SyncFromCloud(loc, cloud, machineId, listing)
      push == SyncToCloud(pull.local, pull.cloud, machineId)
  IN IF pull.raised
     THEN [local |-> pull.local, cloud |-> pull.cloud, raised |-> TRUE, atPull |-> Absent]
     ELSE [local |-> push.local, cloud |-> push.cloud, raised |-> push.raised,
           atPull |-> cloud.files[UsageFile(machineId)]]

\* syncWithCloud(localDataDir, cloudDir, machineId): push first, then pull.
\* A throw of the first call leaves the second unexecuted.  listing is what
\* readdirSync(cloudDir) returns to the pull; atPull is the cloud's copy of
\* the caller's own file as the pull found it.
SyncWithCloud(loc, cloud, machineId, listing) ==
  LET push == SyncToCloud(loc, cloud, machineId)
      pull == SyncFromCloud(push.local, push.cloud, machineId, listing)
  IN IF push.raised
     THEN [local |-> push.local, cloud |-> push.cloud, raised |-> TRUE, atPull |-> Absent]
     ELSE [local |-> pull.local, cloud |-> pull.cloud, raised |-> pull.raised,
           atPull |-> push.cloud.files[UsageFile(machineId)]]

\* The cloud files a push writes: the caller's own (syncToCloud, cloudFile).
PushTargets_AllUsage(loc, machineId) == {n \in Names : IsUsageFile(n) /\ ExistsSync(loc, n)}

PushTargets(loc, machineId) ==
  IF ExistsSync(loc, UsageFile(machineId)) THEN {UsageFile(machineId)} ELSE {}

\* ------------------------------------------------------------------ sync.js
\* saveData(data, machineId): create the data directory if absent and write
\* the whole record file.
SaveDataFile(loc, machineId, data) ==
  LET made == IF ~loc.exists THEN MkdirSync(loc) ELSE loc
  IN [made EXCEPT !.files[UsageFile(machineId)] = data]

\* lastSync: new Date().toISOString() of the cycle that saves; later than the
\* stamp of the file it replaces.
NextStamp(loc, machineId) ==
  IF ExistsSync(loc, UsageFile(machineId)) THEN loc.files[UsageFile(machineId)].lastSync + 1 ELSE 1

\* ---------------------------------------------- sync.js: the record store
\* Bounds of the sync cycles: how many cycles a machine runs, and how many
\* sessions one run of the observation source (ccusage) reports.
MaxCycles == 2
MaxObserved == 2

\* Strings are sequences of tokens: "-", "/" and the runs of other characters
\* between them.  undefined and null are tokens of their own, which is also
\* how a template literal renders them.
Undefined == <<"undefined">>
Null == <<"null">>

\* A string value the || and ! of JavaScript take as present.
Truthy(s) == s # Undefined /\ s # Null /\ s # <<>>

UnknownProject == <<"Unknown Project">>
Unknown == <<"Unknown">>

\* decodeProjectPath without the second replace: only the leading dash
\* becomes a slash.
DecodeProjectPath_LeadingDashOnly(sessionId) ==
  IF ~Truthy(sessionId) \/ Head(sessionId) # "-" THEN Null
  ELSE <<"/">> \o Tail(sessionId)

\* decodeProjectPath(sessionId)
DecodeProjectPath(sessionId) ==
  IF ~Truthy(sessionId) \/ Head(sessionId) # "-" THEN Null
  ELSE [i \in 1..Len(sessionId) |-> IF sessionId[i] = "-" THEN "/" ELSE sessionId[i]]

\* getProjectName(projectPath): projectPath.split('/').pop() || projectPath
GetProjectName(projectPath) ==
  IF ~Truthy(projectPath) THEN Unknown
  ELSE LET slashes == {i \in 1..Len(projectPath) : projectPath[i] = "/"}
           k == IF slashes = {} THEN 0 ELSE CHOOSE i \in slashes : \A j \in slashes : j <= i
           name == SubSeq(projectPath, k + 1, Len(projectPath))
       IN IF name = <<>> THEN projectPath ELSE name

\* A session as ccusage reports it.
Session(sessionId, id, projectPath, startTime, totalCost) ==
  [sessionId |-> sessionId, id |-> id, projectPath |-> projectPath,
   startTime |-> startTime, totalCost |-> totalCost]

\* The key with the two identifiers tried in the other order:
\* session.id || session.sessionId || ...
SessionKey_IdFirst(session) ==
  IF Truthy(session.id) THEN session.id
  ELSE IF Truthy(session.sessionId) THEN session.sessionId
       ELSE session.projectPath \o <<"-">> \o session.startTime

\* session.sessionId || session.id || `${session.projectPath}-${session.startTime}`
SessionKey(session) ==
  IF Truthy(session.sessionId) THEN session.sessionId
  ELSE IF Truthy(session.id) THEN session.id
       ELSE session.projectPath \o <<"-">> \o session.startTime

\* The record the merge stores for a session: the session's own fields, the
\* project path (decoded from the sessionId when ccusage gave none), the
\* project name and the time of the merge.
StoredSession(session, now) ==
  LET projectPath == IF Truthy(session.projectPath) /\ session.projectPath # UnknownProject
                     THEN session.projectPath
                     ELSE DecodeProjectPath(session.sessionId)
  IN [sessionId |-> session.sessionId, id |-> session.id, projectPath |-> projectPath,
      startTime |-> session.startTime, totalCost |-> session.totalCost,
      projectName |-> GetProjectName(projectPath), syncedAt |-> now]

\* sessions[id] = {...} that adds the session's cost to the stored record's.
MergeOne_Accumulate(sessions, session, now) ==
  LET id == SessionKey(session)
      fresh == StoredSession(session, now)
  IN [i \in DOMAIN sessions \cup {id} |->
        IF i # id THEN sessions[i]
        ELSE IF id \in DOMAIN sessions
             THEN [fresh EXCEPT !.totalCost = @ + sessions[id].totalCost]
             ELSE fresh]

\* sessions[id] = { ...sessions[id], ...session, ... }: a field the session
\* does not carry keeps the value of the stored record.
MergeOne_KeepOldFields(sessions, session, now) ==
  LET id == SessionKey(session)
      fresh == StoredSession(session, now)
  IN [i \in DOMAIN sessions \cup {id} |->
        IF i # id THEN sessions[i]
        ELSE IF id \in DOMAIN sessions
             THEN [f \in DOMAIN fresh |->
                     IF f \in {"id", "startTime"} /\ fresh[f] = Undefined
                     THEN sessions[id][f] ELSE fresh[f]]
             ELSE fresh]

\* sessions[id] = { ...session, projectPath, projectName, syncedAt }
MergeOne(sessions, session, now) ==
  LET id == SessionKey(session)
  IN [i \in DOMAIN sessions \cup {id} |->
        IF i = id THEN StoredSession(session, now) ELSE sessions[i]]

\* The merge loop with the test for a stored record made after the
\* assignment: every session counts as updated.
RECURSIVE MergeLoop_CountAfterStore(_, _, _)
MergeLoop_CountAfterStore(observed, acc, now) ==
  IF observed = <<>> THEN acc
  ELSE MergeLoop_CountAfterStore(Tail(observed),
         [sessions |-> MergeOne(acc.sessions, Head(observed), now),
          newCount |-> acc.newCount,
          updatedCount |-> acc.updatedCount + 1],
         now)

\* for (const session of ccusageData.sessions) { ... }: acc holds sessions,
\* newCount and updatedCount.
RECURSIVE MergeLoop(_, _, _)
MergeLoop(observed, acc, now) ==
  IF observed = <<>> THEN acc
  ELSE LET id == SessionKey(Head(observed))
           isNew == id \notin DOMAIN acc.sessions
       IN MergeLoop(Tail(observed),
                    [sessions |-> MergeOne(acc.sessions, Head(observed), now),
                     newCount |-> IF isNew THEN acc.newCount + 1 ELSE acc.newCount,
                     updatedCount |-> IF isNew THEN acc.updatedCount ELSE acc.updatedCount + 1],
                    now)

\* The file usage-<machineId>.json of the data directory: missing, not
\* parseable, or a record set.  hasSyncs tells whether the object has a
\* `syncs` key; lastSync -1 stands for no `lastSync` key.
NoDataFile == [kind |-> "absent", sessions |-> <<>>, hasSyncs |-> FALSE, syncs |-> <<>>, lastSync |-> -1]
CorruptDataFile == [kind |-> "corrupt", sessions |-> <<>>, hasSyncs |-> FALSE, syncs |-> <<>>, lastSync |-> -1]
DataFile(sessions, hasSyncs, syncs, lastSync) ==
  [kind |-> "json", sessions |-> sessions, hasSyncs |-> hasSyncs, syncs |-> syncs, lastSync |-> lastSync]

\* loadExistingData without the try/catch: the error of JSON.parse leaves the
\* function (shown as a value of kind "threw" in place of a record set).
LoadExistingData_NoCatch(machineId, file) ==
  IF Truthy(machineId) /\ file.kind = "json" THEN file
  ELSE IF Truthy(machineId) /\ file.kind = "corrupt" THEN [file EXCEPT !.kind = "threw"]
       ELSE DataFile(<<>>, TRUE, <<>>, -1)

\* loadExistingData(machineId): the parsed file, or { sessions: {}, syncs: [] }
\* when the file is missing or does not parse.
LoadExistingData(machineId, file) ==
  IF Truthy(machineId) /\ file.kind = "json" THEN file ELSE DataFile(<<>>, TRUE, <<>>, -1)

\* The machine id sync() has settled on (line 144): never empty by line 159.
ThisMachine == <<"a">>

\* What runCcusage() returns: null (ok = FALSE), an object without
\* `sessions`, or an object with the list of sessions.
CcusageNull == [ok |-> FALSE, hasSessions |-> FALSE, sessions |-> <<>>]
CcusageNoSessions == [ok |-> TRUE, hasSessions |-> FALSE, sessions |-> <<>>]
CcusageData(sessions) == [ok |-> TRUE, hasSessions |-> TRUE, sessions |-> sessions]

\* A log entry whose total is the sum of the two counters instead of the
\* size of the record set.
SyncEntry_TotalFromCounts(now, newCount, updatedCount, sessions) ==
  [timestamp |-> now, newSessions |-> newCount, updatedSessions |-> updatedCount,
   totalSessions |-> newCount + updatedCount]

\* The entry a cycle appends to the syncs log.
SyncEntry(now, newCount, updatedCount, sessions) ==
  [timestamp |-> now, newSessions |-> newCount, updatedSessions |-> updatedCount,
   totalSessions |-> Cardinality(DOMAIN sessions)]

\* The result of sync(): the file it leaves, what it returns, whether it
\* threw, whether the merge loop ran, the loop's two counters and the
\* `sessions` object the function ended with.
SyncResult(file, returned, raised, merged, newCount, updatedCount, sessions) ==
  [file |-> file, returned |-> returned, raised |-> raised, merged |-> merged,
   newCount |-> newCount, updatedCount |-> updatedCount, sessions |-> sessions]

\* sync() whose merge starts from an empty object instead of the loaded
\* sessions.
Sync_FreshSessions(file, ccusageData, now) ==
  LET existing == LoadExistingData(ThisMachine, file)
  IN IF ~ccusageData.ok \/ ~ccusageData.hasSessions
     THEN SyncResult(file, existing, FALSE, FALSE, 0, 0, existing.sessions)
     ELSE LET m == MergeLoop(ccusageData.sessions,
                             [sessions |-> <<>>, newCount |-> 0, updatedCount |-> 0], now)
          IN IF ~existing.hasSyncs
             THEN SyncResult(file, existing, TRUE, TRUE, m.newCount, m.updatedCount, m.sessions)
             ELSE LET data == DataFile(m.sessions,
                                       TRUE,
                                       Append(existing.syncs,
                                              SyncEntry(now, m.newCount, m.updatedCount, m.sessions)),
                                       now)
                  IN SyncResult(data, data, FALSE, TRUE, m.newCount, m.updatedCount, m.sessions)

\* sync() that takes a missing result of ccusage for an empty list of
\* sessions and goes on to save.
Sync_EmptyOnMissing(file, ccusageData, now) ==
  LET existing == LoadExistingData(ThisMachine, file)
      m == MergeLoop(ccusageData.sessions,
                     [sessions |-> existing.sessions, newCount |-> 0, updatedCount |-> 0], now)
  IN IF ~existing.hasSyncs
     THEN SyncResult(file, existing, TRUE, TRUE, m.newCount, m.updatedCount, m.sessions)
     ELSE LET data == DataFile(m.sessions,
                               TRUE,
                               Append(existing.syncs,
                                      SyncEntry(now, m.newCount, m.updatedCount, m.sessions)),
                               now)
          IN SyncResult(data, data, FALSE, TRUE, m.newCount, m.updatedCount, m.sessions)

\* sync(machineId), from loadExistingData on: load, run ccusage, merge, save.
\* Spreading existing.syncs throws a TypeError when the loaded object has no
\* `syncs` key; nothing is saved then.
Sync(file, ccusageData, now) ==
  LET existing == LoadExistingData(ThisMachine, file)
  IN IF ~ccusageData.ok \/ ~ccusageData.hasSessions
     THEN SyncResult(file, existing, FALSE, FALSE, 0, 0, existing.sessions)
     ELSE LET m == MergeLoop(ccusageData.sessions,
                             [sessions |-> existing.sessions, newCount |-> 0, updatedCount |-> 0],
                             now)
          IN IF ~existing.hasSyncs
             THEN SyncResult(file, existing, TRUE, TRUE, m.newCount, m.updatedCount, m.sessions)
             ELSE LET data == DataFile(m.sessions,
                                       TRUE,
                                       Append(existing.syncs,
                                              SyncEntry(now, m.newCount, m.updatedCount, m.sessions)),
                                       now)
                  IN SyncResult(data, data, FALSE, TRUE, m.newCount, m.updatedCount, m.sessions)

\* The machine id loadAllData takes from a file name:
\* file.replace('usage-', '').replace('.json', '')
MachineIdOf(file) == file[2]

\* { ...session, machineId }
Tagged(session, machineId) == ("machineId" :> machineId) @@ session

\* The body of the loop of loadAllData with a test that keeps the record
\* already collected under an identifier.
LoadOneFile_KeepFirst(acc, dir, file) ==
  LET machineId == MachineIdOf(file)
      data == dir.files[file]
      machines == Append(acc.machines, machineId)
  IN IF data.kind # "json" THEN [sessions |-> acc.sessions, machines |-> machines]
     ELSE [sessions |-> [id \in DOMAIN acc.sessions \cup DOMAIN data.sessions |->
                           IF id \in DOMAIN acc.sessions THEN acc.sessions[id]
                           ELSE Tagged(data.sessions[id], machineId)],
           machines |-> machines]

\* The body of the loop of loadAllData for one file: note the machine id,
\* then parse the file and collect its sessions; a file that cannot be read
\* or parsed is skipped.
LoadOneFile(acc, dir, file) ==
  LET machineId == MachineIdOf(file)
      data == dir.files[file]
      machines == Append(acc.machines, machineId)
  IN IF data.kind # "json" THEN [sessions |-> acc.sessions, machines |-> machines]
     ELSE [sessions |-> [id \in DOMAIN acc.sessions \cup DOMAIN data.sessions |->
                           IF id \in DOMAIN data.sessions
                           THEN Tagged(data.sessions[id], machineId)
                           ELSE acc.sessions[id]],
           machines |-> machines]

RECURSIVE LoadAllLoop(_, _, _)
LoadAllLoop(files, dir, acc) ==
  IF files = <<>> THEN acc
  ELSE LoadAllLoop(Tail(files), dir, LoadOneFile(acc, dir, Head(files)))

\* loadAllData(): dir is the data directory, whose files hold record sets,
\* and listing what readdirSync(DATA_DIR) returns.
LoadAllData(dir, listing) ==
  IF ~dir.exists THEN [sessions |-> <<>>, machines |-> <<>>]
  ELSE LoadAllLoop(SelectSeq(listing, IsUsageFile), dir, [sessions |-> <<>>, machines |-> <<>>])

\* -------------------------------------------------------------------- state
VARIABLES
  local,    \* local[m]: the data directory of machine m
  cloud,    \* the shared cloud directory
  pc,       \* pc[m]: "idle", or "pull" between the two phases of an exchange
  last,     \* the call that produced this state, see Call
  pushed,   \* pushed[m]: the content m's latest push phase copied to the cloud
  seen,     \* seen[m][n]: cloud entry n as m's latest pull phase found it
  disk,     \* the record file of the machine whose sync cycles are followed
  cycle,    \* that machine's latest sync cycle, see Cycle
  proc,     \* proc[m]: where m's syncWithCloud stands, file operation by file operation
  probe     \* the latest direct call of a function of sync.js, see Probe

vars == <<local, cloud, pc, last, pushed, seen, disk, cycle, proc, probe>>

\* The record of a direct call: the function, its arguments and what it
\* returned.
Probe(fn, args, result) == [fn |-> fn, args |-> args, result |-> result]

\* No function has been called directly.
NoProbe == Probe("none", <<>>, <<>>)

\* A call of syncWithCloud under way: the statement it is at, the files the
\* pull loop has still to handle, and the number of calls completed.
Proc(at, files, exchanges) == [at |-> at, files |-> files, exchanges |-> exchanges]

\* No call of syncWithCloud is under way and none has run.
NoProc == [m \in Machines |-> Proc("idle", <<>>, 0)]

\* The record of a sync cycle: its number n, the file it found (before), what
\* ccusage returned to it (observed), whether ccusage returned the same to the
\* cycle before it (again) and the result of sync(): whether it threw, whether
\* the merge ran, the counters, the returned value and the `sessions` object.
Cycle(n, before, observed, again, result) ==
  [n |-> n, before |-> before, observed |-> observed, again |-> again, raised |-> result.raised,
   merged |-> result.merged, newCount |-> result.newCount,
   updatedCount |-> result.updatedCount, returned |-> result.returned,
   sessions |-> result.sessions]

\* No sync cycle has run.
NoCycle == Cycle(0, NoDataFile, CcusageNull, FALSE, SyncResult(NoDataFile, NoDataFile, FALSE, FALSE, 0, 0, <<>>))

\* The record of a call: which function (op) machine m called, whether it
\* threw, whether the same call directly preceded it (again), which
\* directories it created, and for syncWithCloud the cloud's copy of m's file
\* as the pull found it.
Call(op, m, raised, madeLocal, madeCloud, atPull) ==
  [op |-> op, m |-> m, raised |-> raised, again |-> last.op = op /\ last.m = m,
   madeLocal |-> madeLocal, madeCloud |-> madeCloud, atPull |-> atPull]

\* The directories a machine may start from: none, or one that holds its own
\* record file (as saveData wrote it) and copies of peers' files pulled earlier.
InitLocalDirs(m) ==
  {[exists |-> FALSE, blocked |-> FALSE, files |-> NoFiles]} \cup
  {[exists |-> TRUE, blocked |-> FALSE, files |-> f] : f \in
     {g \in [Names -> {Absent} \cup {RecordFile(o, v) : o \in Machines, v \in 0..1}] :
        /\ g[UsageFile(m)] \in {Absent, RecordFile(m, 1)}
        /\ \A p \in Machines \ {m} : g[UsageFile(p)] \in {Absent, RecordFile(p, 0)}
        /\ g[StrangerFile] = Absent
        /\ g[ConfigFile] = Absent}}

\* The cloud folders the machines may find: none, or one whose usage files are
\* absent, torn, older or newer than the owner's, next to foreign entries.
InitCloudDirs ==
  {[exists |-> FALSE, blocked |-> FALSE, files |-> NoFiles]} \cup
  {[exists |-> TRUE, blocked |-> FALSE, files |-> f] : f \in
     {g \in [Names -> {Absent, Torn, RecordFile("-", 0)}
                       \cup {RecordFile(o, v) : o \in Machines, v \in {0, MaxSync}}] :
        /\ \A m \in Machines :
             g[UsageFile(m)] \in {Absent, Torn, RecordFile(m, 0), RecordFile(m, MaxSync)}
        /\ g[StrangerFile] \in {Absent, Torn}
        /\ g[ConfigFile] \in {Absent, RecordFile("-", 0)}}}

Init ==
  /\ local \in [Machines -> UNION {InitLocalDirs(m) : m \in Machines}]
  /\ \A m \in Machines : local[m] \in InitLocalDirs(m)
  /\ cloud \in InitCloudDirs
  /\ pc = [m \in Machines |-> "idle"]
  /\ last = [op |-> "init", m |-> "-", raised |-> FALSE, again |-> FALSE,
             madeLocal |-> FALSE, madeCloud |-> FALSE, atPull |-> Absent]
  /\ pushed = [m \in Machines |-> Absent]
  /\ seen = [m \in Machines |-> NoFiles]
  /\ disk = NoDataFile
  /\ cycle = NoCycle
  /\ proc = NoProc
  /\ probe = NoProbe

\* A sync cycle of machine m saves its record set (sync.js, saveData).
SaveData(m) ==
  /\ pc[m] = "idle"
  /\ NextStamp(local[m], m) <= MaxSync
  /\ local' = [local EXCEPT ![m] = SaveDataFile(local[m], m, RecordFile(m, NextStamp(local[m], m)))]
  /\ last' = Call("save", m, FALSE, ~local[m].exists, FALSE, Absent)
  /\ UNCHANGED <<cloud, pc, pushed, seen, disk, cycle, proc, probe>>

\* Machine m calls syncToCloud.
CallSyncToCloud(m) ==
  LET r == SyncToCloud(local[m], cloud, m)
  IN /\ pc[m] = "idle"
     /\ local' = [local EXCEPT ![m] = r.local]
     /\ cloud' = r.cloud
     /\ last' = Call("push", m, r.raised, ~local[m].exists /\ r.local.exists,
                     ~cloud.exists /\ r.cloud.exists, Absent)
     /\ UNCHANGED <<pc, pushed, seen, disk, cycle, proc, probe>>

\* Machine m calls syncFromCloud.
CallSyncFromCloud(m) ==
  /\ pc[m] = "idle"
  /\ \E r \in {SyncFromCloud(local[m], cloud, m, listing) : listing \in ReaddirSync(cloud)} :
       /\ local' = [local EXCEPT ![m] = r.local]
       /\ cloud' = r.cloud
       /\ last' = Call("pull", m, r.raised, ~local[m].exists /\ r.local.exists,
                       ~cloud.exists /\ r.cloud.exists, Absent)
  /\ UNCHANGED <<pc, pushed, seen, disk, cycle, proc, probe>>

\* Machine m calls syncWithCloud and the call runs to its end.
CallSyncWithCloud(m) ==
  /\ pc[m] = "idle"
  /\ \E r \in {SyncWithCloud(local[m], cloud, m, listing) :
                 listing \in ReaddirSync(SyncToCloud(local[m], cloud, m).cloud)} :
       /\ local' = [local EXCEPT ![m] = r.local]
       /\ cloud' = r.cloud
       /\ last' = Call("exchange", m, r.raised, ~local[m].exists /\ r.local.exists,
                       ~cloud.exists /\ r.cloud.exists, r.atPull)
  /\ UNCHANGED <<pc, pushed, seen, disk, cycle, proc, probe>>

Next ==
  \E m \in Machines :
    \/ CallSyncToCloud(m)
    \/ CallSyncFromCloud(m)
    \/ CallSyncWithCloud(m)

Spec == Init /\ [][Next]_vars

\* ------------------------------------------------- exchange, phase by phase
\* The machines run on different hosts: between the push and the pull of one
\* machine's syncWithCloud the other machines may run theirs.  A machine runs
\* its own cycle serially, so it does not save while its exchange is under way.

\* What a push by m records: the content it copied, if it copied one.
PushedAfter(m, loc) ==
  IF ExistsSync(loc, UsageFile(m)) THEN [pushed EXCEPT ![m] = loc.files[UsageFile(m)]] ELSE pushed

\* What a pull by m records: the usage files of the cloud as it found them.
SeenAfter(m, dir) ==
  IF dir.exists
  THEN [seen EXCEPT ![m] = [n \in Names |-> IF IsUsageFile(n) THEN dir.files[n] ELSE Absent]]
  ELSE seen

\* The push phase of syncWithCloud (cloudSync.js line 73).
PushPhase(m) ==
  LET r == SyncToCloud(local[m], cloud, m)
  IN /\ pc[m] = "idle"
     /\ local' = [local EXCEPT ![m] = r.local]
     /\ cloud' = r.cloud
     /\ pushed' = PushedAfter(m, local[m])
     /\ pc' = [pc EXCEPT ![m] = IF r.raised THEN "idle" ELSE "pull"]
     /\ last' = Call("pushPhase", m, r.raised, ~local[m].exists /\ r.local.exists,
                     ~cloud.exists /\ r.cloud.exists, Absent)
     /\ UNCHANGED <<seen, disk, cycle, proc, probe>>

\* The pull phase of syncWithCloud (cloudSync.js line 75).
PullPhase(m) ==
  /\ pc[m] = "pull"
  /\ \E r \in {SyncFromCloud(local[m], cloud, m, listing) : listing \in ReaddirSync(cloud)} :
       /\ local' = [local EXCEPT ![m] = r.local]
       /\ cloud' = r.cloud
       /\ last' = Call("pullPhase", m, r.raised, ~local[m].exists /\ r.local.exists,
                       ~cloud.exists /\ r.cloud.exists, cloud.files[UsageFile(m)])
  /\ seen' = SeenAfter(m, cloud)
  /\ pc' = [pc EXCEPT ![m] = "idle"]
  /\ UNCHANGED <<pushed, disk, cycle, proc, probe>>

\* The cloud folders the phased runs start from: each usage file absent or torn.
InitCycleCloudDirs ==
  {d \in InitCloudDirs :
     /\ \A m \in Machines : d.files[UsageFile(m)] \in {Absent, Torn}
     /\ d.files[ConfigFile] = Absent}

InitCycle ==
  /\ Init
  /\ cloud \in InitCycleCloudDirs

NextCycle ==
  \E m \in Machines :
    \/ SaveData(m)
    \/ PushPhase(m)
    \/ PullPhase(m)

SpecCycle == InitCycle /\ [][NextCycle]_vars

\* The phased runs in which no machine starts with copies of peers' files.
InitFair ==
  /\ InitCycle
  /\ \A m \in Machines : \A p \in Machines \ {m} : local[m].files[UsageFile(p)] = Absent

\* Every machine keeps running exchange cycles.
FairCycle ==
  /\ InitFair
  /\ [][NextCycle]_vars
  /\ \A m \in Machines : WF_vars(PushPhase(m)) /\ WF_vars(PullPhase(m))

\* ------------------------------------- exchange, file operation by file operation
\* The machines run on different hosts and share only the cloud folder, so
\* the file operations of their calls of syncWithCloud interleave.  A copy
\* into the cloud folder is not one operation to a reader on another host:
\* copyFileSync opens and truncates the destination, then writes it, and a
\* reader in between finds a file that does not parse.

\* Highest number of calls of syncWithCloud a machine makes.
MaxExchanges == 1

\* proc with machine m's entry replaced.
ProcAt(m, at, files, exchanges) == [proc EXCEPT ![m] = Proc(at, files, exchanges)]

\* syncToCloud, lines 15-17: create the cloud folder if it is missing; a
\* throw of mkdirSync ends the call.
PushMkdir(m) ==
  /\ proc[m].at = "idle"
  /\ proc[m].exchanges < MaxExchanges
  /\ cloud' = IF ~cloud.exists /\ ~MkdirThrows(cloud) THEN MkdirSync(cloud) ELSE cloud
  /\ proc' = IF MkdirThrows(cloud)
             THEN ProcAt(m, "idle", <<>>, proc[m].exchanges + 1)
             ELSE ProcAt(m, "pushTest", <<>>, proc[m].exchanges)
  /\ UNCHANGED <<local, pc, last, pushed, seen, disk, cycle, probe>>

\* syncToCloud, lines 20-21: the test for the local file, and copyFileSync
\* opening the cloud file for writing.
PushCopyBegin(m) ==
  /\ proc[m].at = "pushTest"
  /\ cloud' = [cloud EXCEPT !.files = [n \in Names |->
                 IF n \in PushTargets(local[m], m) THEN Torn ELSE cloud.files[n]]]
  /\ proc' = ProcAt(m, IF PushTargets(local[m], m) = {} THEN "pullTest" ELSE "pushCopy",
                    <<>>, proc[m].exchanges)
  /\ UNCHANGED <<local, pc, last, pushed, seen, disk, cycle, probe>>

\* syncToCloud, line 21: copyFileSync has written the cloud file.
PushCopyEnd(m) ==
  /\ proc[m].at = "pushCopy"
  /\ cloud' = [cloud EXCEPT !.files = [n \in Names |->
                 IF n \in PushTargets(local[m], m) THEN local[m].files[n] ELSE cloud.files[n]]]
  /\ proc' = ProcAt(m, "pullTest", <<>>, proc[m].exchanges)
  /\ UNCHANGED <<local, pc, last, pushed, seen, disk, cycle, probe>>

\* syncFromCloud, lines 33-42: return if there is no cloud folder; otherwise
\* create the local directory if it is missing and list the cloud folder.
PullList(m) ==
  /\ proc[m].at = "pullTest"
  /\ IF ~cloud.exists
     THEN /\ proc' = ProcAt(m, "idle", <<>>, proc[m].exchanges + 1)
          /\ local' = local
     ELSE /\ local' = [local EXCEPT ![m] = IF ~local[m].exists THEN MkdirSync(local[m]) ELSE local[m]]
          /\ \E listing \in ReaddirSync(cloud) :
               proc' = ProcAt(m, "pullLoop", SelectSeq(listing, IsUsageFile), proc[m].exchanges)
  /\ UNCHANGED <<cloud, pc, last, pushed, seen, disk, cycle, probe>>

\* syncFromCloud, lines 44-54: the head of the loop.  The loop ends with the
\* list; the caller's own file is skipped; any other file is read and parsed,
\* and skipped if it is missing or does not parse.
PullRead(m) ==
  /\ proc[m].at = "pullLoop"
  /\ proc' = IF proc[m].files = <<>>
             THEN ProcAt(m, "idle", <<>>, proc[m].exchanges + 1)
             ELSE IF Head(proc[m].files) = UsageFile(m)
                     \/ ~ParsesAsJSON(cloud.files[Head(proc[m].files)])
                  THEN ProcAt(m, "pullLoop", Tail(proc[m].files), proc[m].exchanges)
                  ELSE ProcAt(m, "pullCopy", proc[m].files, proc[m].exchanges)
  /\ UNCHANGED <<local, cloud, pc, last, pushed, seen, disk, cycle, probe>>

\* syncFromCloud, line 57: copyFileSync copies the cloud file as it is now to
\* the local directory; a throw is caught (lines 58-61).
PullCopy(m) ==
  LET file == Head(proc[m].files)
      copied == CopyFileSync(cloud, file, local[m], file)
  IN /\ proc[m].at = "pullCopy"
     /\ local' = [local EXCEPT ![m] = copied.dir]
     /\ proc' = ProcAt(m, "pullLoop", Tail(proc[m].files), proc[m].exchanges)
     /\ UNCHANGED <<cloud, pc, last, pushed, seen, disk, cycle, probe>>

NextSteps ==
  \E m \in Machines :
    \/ PushMkdir(m)
    \/ PushCopyBegin(m)
    \/ PushCopyEnd(m)
    \/ PullList(m)
    \/ PullRead(m)
    \/ PullCopy(m)

\* The runs start from the states of Init with no foreign entry in the cloud.
InitSteps ==
  /\ Init
  /\ cloud.files[StrangerFile] = Absent
  /\ cloud.files[ConfigFile] = Absent

SpecSteps == InitSteps /\ [][NextSteps]_vars

\* ------------------------------------------------- a cloud folder out of reach
\* The calls of Spec where the configured cloud folder is missing and may be
\* impossible to create.
InitSetup ==
  /\ Init
  /\ ~cloud.exists

InitBlocked ==
  \/ InitSetup
  \/ /\ \E c \in InitCloudDirs : ~c.exists /\ cloud = [c EXCEPT !.blocked = TRUE]
     /\ local \in [Machines -> UNION {InitLocalDirs(m) : m \in Machines}]
     /\ \A m \in Machines : local[m] \in InitLocalDirs(m)
     /\ pc = [m \in Machines |-> "idle"]
     /\ last = [op |-> "init", m |-> "-", raised |-> FALSE, again |-> FALSE,
                madeLocal |-> FALSE, madeCloud |-> FALSE, atPull |-> Absent]
     /\ pushed = [m \in Machines |-> Absent]
     /\ seen = [m \in Machines |-> NoFiles]
     /\ disk = NoDataFile
     /\ cycle = NoCycle
     /\ proc = NoProc
     /\ probe = NoProbe

SpecSetup == InitBlocked /\ [][Next]_vars

\* ------------------------------------------------------------ sync cycles
\* The sync cycles of one machine, each a whole call of sync().

\* Two sessions of ccusage: one with a project path, of which ccusage may
\* report two costs, and one whose path sync() decodes from the sessionId.
SessionR(totalCost) == Session(<<"-", "u", "-", "r">>, Undefined, <<"/", "u", "/", "r">>, <<"t">>, totalCost)
SessionS == Session(<<"-", "u", "-", "s">>, Undefined, UnknownProject, <<"t">>, 1)

\* The first session as a run of ccusage that gives no startTime reports it.
SessionNoTime == Session(<<"-", "u", "-", "r">>, Undefined, <<"/", "u", "/", "r">>, Undefined, 1)

Observations == {SessionR(1), SessionR(2), SessionS, SessionNoTime}

\* What runCcusage() may return to a cycle.
CcusageResults ==
  {CcusageNull, CcusageNoSessions} \cup
  {CcusageData(l) : l \in UNION {[1..k -> Observations] : k \in 0..MaxObserved}}

\* The record file of the README: one session, `lastSync`, no `syncs`.
ReadmeDataFile ==
  DataFile([i \in {SessionKey(SessionR(1))} |->
              [sessionId |-> SessionR(1).sessionId, id |-> Undefined,
               projectPath |-> SessionR(1).projectPath, startTime |-> Undefined,
               totalCost |-> 1, projectName |-> Undefined, syncedAt |-> -1]],
           FALSE, <<>>, 0)

\* The files a first cycle may find: none, one that does not parse, the
\* README's, or one an earlier run of sync() wrote.
InitDataFiles ==
  {NoDataFile, CorruptDataFile, ReadmeDataFile,
   Sync(NoDataFile, CcusageData(<<SessionR(1)>>), 0).file}

InitSync ==
  /\ local = [m \in Machines |-> [exists |-> FALSE, blocked |-> FALSE, files |-> NoFiles]]
  /\ cloud = [exists |-> FALSE, blocked |-> FALSE, files |-> NoFiles]
  /\ pc = [m \in Machines |-> "idle"]
  /\ last = [op |-> "init", m |-> "-", raised |-> FALSE, again |-> FALSE,
             madeLocal |-> FALSE, madeCloud |-> FALSE, atPull |-> Absent]
  /\ pushed = [m \in Machines |-> Absent]
  /\ seen = [m \in Machines |-> NoFiles]
  /\ disk \in InitDataFiles
  /\ cycle = NoCycle
  /\ proc = NoProc
  /\ probe = NoProbe

\* One call of sync(): the time of cycle n is n.
SyncCycle ==
  /\ cycle.n < MaxCycles
  /\ \E ccusageData \in CcusageResults :
       LET now == cycle.n + 1
           result == Sync(disk, ccusageData, now)
       IN /\ disk' = result.file
          /\ cycle' = Cycle(now, disk, ccusageData,
                            cycle.n > 0 /\ cycle.observed = ccusageData, result)
  /\ UNCHANGED <<local, cloud, pc, last, pushed, seen, proc, probe>>

NextSync == SyncCycle

SpecSync == InitSync /\ [][NextSync]_vars

\* ------------------------------------------------------------ direct calls
\* The functions of sync.js called one at a time on arguments of their own;
\* they keep no state between calls, so every call starts from NoProbe.

\* What a caller may pass for a machine id: nothing, null, '' or an id.
MachineIdArgs == {Undefined, Null, <<>>, ThisMachine}

\* A call of loadExistingData(machineId) that finds `file` at
\* getDataFile(machineId).
CallLoadExistingData ==
  /\ probe = NoProbe
  /\ \E machineId \in MachineIdArgs, file \in InitDataFiles :
       probe' = Probe("loadExistingData", <<machineId, file>>, LoadExistingData(machineId, file))
  /\ UNCHANGED <<local, cloud, pc, last, pushed, seen, disk, cycle, proc>>

\* The record files a data directory may hold for machine m: none, one
\* that does not parse, or one written by sync() with one or two sessions
\* (the two machines report different costs for the session they share).
DataFilesOf(m) ==
  LET cost == IF m = "a" THEN 1 ELSE 2
  IN {NoDataFile, CorruptDataFile,
      Sync(NoDataFile, CcusageData(<<SessionR(cost)>>), 0).file,
      Sync(NoDataFile, CcusageData(<<SessionR(cost), SessionS>>), 0).file}

\* The data directories loadAllData may find: none, or one with record
\* files of the machines and possibly config.json.
DataDirs ==
  {[exists |-> FALSE, blocked |-> FALSE, files |-> [n \in Names |-> NoDataFile]]} \cup
  {[exists |-> TRUE, blocked |-> FALSE, files |-> f] : f \in
     {g \in [Names -> UNION {DataFilesOf(m) : m \in Machines}
                       \cup {Sync(NoDataFile, CcusageData(<<SessionS>>), 0).file}] :
        /\ \A m \in Machines : g[UsageFile(m)] \in DataFilesOf(m)
        /\ g[StrangerFile] \in {NoDataFile, CorruptDataFile}
        /\ g[ConfigFile] \in {NoDataFile, Sync(NoDataFile, CcusageData(<<SessionS>>), 0).file}}}

\* readdirSync(DATA_DIR): every arrangement of the directory's entries.
ReaddirData(dir) ==
  LET entries == {n \in Names : dir.files[n].kind # "absent"}
      k == Cardinality(entries)
  IN {l \in [1..k -> entries] : \A i, j \in 1..k : i # j => l[i] # l[j]}

\* A call of loadAllData().
CallLoadAllData ==
  /\ probe = NoProbe
  /\ \E dir \in DataDirs : \E listing \in ReaddirData(dir) :
       probe' = Probe("loadAllData", <<dir, listing>>, LoadAllData(dir, listing))
  /\ UNCHANGED <<local, cloud, pc, last, pushed, seen, disk, cycle, proc>>

\* The sessions ccusage may report, with and without each of the fields the
\* key and the project path are derived from.
KeySessions ==
  {Session(sessionId, id, projectPath, startTime, 1) :
     sessionId \in {Undefined, <<>>, <<"-", "u", "-", "r">>, <<"x">>},
     id \in {Undefined, <<>>, <<"-", "v">>, <<"/", "p", "-", "t">>},
     projectPath \in {Undefined, <<>>, UnknownProject, <<"/", "p">>, <<"/", "p", "/">>},
     startTime \in {Undefined, <<"t">>}}

\* The derivation of the merge key of one session (sync.js line 173).
CallSessionKey ==
  /\ probe = NoProbe
  /\ \E session \in KeySessions :
       probe' = Probe("sessionKey", <<session>>, SessionKey(session))
  /\ UNCHANGED <<local, cloud, pc, last, pushed, seen, disk, cycle, proc>>

\* The merge loop run on two sessions, starting from no stored session.
CallMergeLoop ==
  /\ probe = NoProbe
  /\ \E first \in KeySessions, second \in KeySessions :
       probe' = Probe("mergeLoop", <<first, second>>,
                      MergeLoop(<<first, second>>,
                                [sessions |-> <<>>, newCount |-> 0, updatedCount |-> 0], 1))
  /\ UNCHANGED <<local, cloud, pc, last, pushed, seen, disk, cycle, proc>>

\* The record sync() builds for one session (sync.js lines 180-189).
CallStoredSession ==
  /\ probe = NoProbe
  /\ \E session \in KeySessions :
       probe' = Probe("storedSession", <<session>>, StoredSession(session, 1))
  /\ UNCHANGED <<local, cloud, pc, last, pushed, seen, disk, cycle, proc>>

NextPure ==
  \/ CallLoadExistingData
  \/ CallLoadAllData
  \/ CallSessionKey
  \/ CallMergeLoop
  \/ CallStoredSession

InitPure ==
  /\ InitSync
  /\ disk = NoDataFile

SpecPure == InitPure /\ [][NextPure]_vars

\* ---------------------------------------------------------------- properties
Own(m) == UsageFile(m)

\* The usage files of the cloud that a pull by m is to copy: every one but m's.
PeerFiles(m) == {n \in Names : IsUsageFile(n) /\ n # Own(m)}

\* C1 - push overwrite: when machine m has a local usage file, a call of
\* syncToCloud or syncWithCloud by m does not throw and leaves the cloud's
\* usage-m.json equal to m's local file, whatever the cloud held before.
PushOverwrite ==
  [][\A m \in Machines :
       (last'.op \in {"push", "exchange"} /\ last'.m = m /\ ExistsSync(local[m], Own(m)))
       => /\ ~last'.raised
          /\ cloud'.files[Own(m)] = local[m].files[Own(m)]
          /\ cloud'.files[Own(m)] = local'[m].files[Own(m)]]_vars

PushOverwriteWitness ==
  \E m \in Machines :
    /\ last.op = "push" /\ last.m = m /\ ~last.raised
    /\ ExistsSync(local[m], Own(m))
    /\ local[m].files[Own(m)].lastSync < MaxSync
    /\ cloud.files[Own(m)] = local[m].files[Own(m)]

\* C2 - self-exclusion on pull: a call of syncFromCloud by m leaves m's local
\* usage-m.json as it was (not modified, not created, not removed), whatever
\* the cloud holds under that name.
SelfExclusionOnPull ==
  [][\A m \in Machines :
       (last'.op = "pull" /\ last'.m = m)
       => local'[m].files[Own(m)] = local[m].files[Own(m)]]_vars

SelfExclusionOnPullWitness ==
  \E m \in Machines :
    /\ last.op = "pull" /\ last.m = m
    /\ ExistsSync(local[m], Own(m))
    /\ ParsesAsJSON(cloud.files[Own(m)])
    /\ cloud.files[Own(m)] # local[m].files[Own(m)]

\* C3 - corrupt-peer isolation: a call of syncFromCloud by m against an
\* existing cloud folder does not throw, whatever the listing order; every
\* peer usage file that parses is copied to the local directory, and a peer
\* usage file that does not parse leaves the local entry of that name as it
\* was (so none is created for it).
CorruptPeerIsolation ==
  [][\A m \in Machines :
       (last'.op = "pull" /\ last'.m = m /\ cloud.exists)
       => /\ ~last'.raised
          /\ \A n \in PeerFiles(m) :
               /\ ParsesAsJSON(cloud.files[n]) => local'[m].files[n] = cloud.files[n]
               /\ ~ParsesAsJSON(cloud.files[n]) => local'[m].files[n] = local[m].files[n]]_vars

CorruptPeerIsolationWitness ==
  \E m \in Machines :
    /\ last.op = "pull" /\ last.m = m /\ ~last.raised
    /\ \E n \in PeerFiles(m) : ParsesAsJSON(cloud.files[n]) /\ local[m].files[n] = cloud.files[n]
    /\ \E n \in PeerFiles(m) : cloud.files[n] = Torn /\ local[m].files[n] = Absent
    /\ cloud.files[Own(m)] = Torn

\* C6 - exchange result: when m has a local usage file, a call of
\* syncWithCloud by m leaves the cloud with usage-m.json equal to m's local
\* file and every other entry as it was, and leaves m's local directory with
\* usage-m.json as it was and, for every peer usage file of the cloud that
\* parses, a local file of the same name equal to it.
ExchangeResult ==
  [][\A m \in Machines :
       (last'.op = "exchange" /\ last'.m = m /\ ExistsSync(local[m], Own(m)))
       => /\ cloud'.files[Own(m)] = local[m].files[Own(m)]
          /\ \A n \in Names \ {Own(m)} : cloud'.files[n] = cloud.files[n]
          /\ local'[m].files[Own(m)] = local[m].files[Own(m)]
          /\ \A n \in PeerFiles(m) :
               ParsesAsJSON(cloud.files[n]) => local'[m].files[n] = cloud'.files[n]]_vars

ExchangeResultWitness ==
  \E m \in Machines :
    /\ last.op = "exchange" /\ last.m = m /\ ~last.again
    /\ ExistsSync(local[m], Own(m))
    /\ cloud.files[Own(m)] = local[m].files[Own(m)]
    /\ \A p \in Machines \ {m} :
         ParsesAsJSON(cloud.files[Own(p)]) /\ local[m].files[Own(p)] = cloud.files[Own(p)]

\* C7 - single-owner shared files: a call of syncToCloud, syncFromCloud or
\* syncWithCloud by m leaves every entry of the cloud other than usage-m.json
\* as it was, and syncFromCloud leaves the whole cloud directory as it was.
SingleOwnerSharedFiles ==
  [][\A m \in Machines :
       (last'.op \in {"push", "pull", "exchange"} /\ last'.m = m)
       => /\ \A n \in Names \ {Own(m)} : cloud'.files[n] = cloud.files[n]
          /\ last'.op = "pull" => cloud' = cloud]_vars

SingleOwnerSharedFilesWitness ==
  \E m \in Machines :
    /\ last.op = "exchange" /\ last.m = m
    /\ cloud.files[Own(m)] = local[m].files[Own(m)]
    /\ \E p \in Machines \ {m} :
         /\ ExistsSync(local[m], Own(p))
         /\ ExistsSync(cloud, Own(p))
         /\ ~ParsesAsJSON(cloud.files[Own(p)])

\* C8 - exchange ordering: in syncWithCloud the pull runs after the push, so
\* the cloud's usage-m.json the pull finds equals m's local usage-m.json,
\* whenever m has a local file.
ExchangeOrdering ==
  \A m \in Machines :
    (last.op = "exchange" /\ last.m = m /\ ExistsSync(local[m], Own(m)))
    => ~last.raised /\ last.atPull = local[m].files[Own(m)]

ExchangeOrderingWitness ==
  \E m \in Machines :
    /\ last.op = "exchange" /\ last.m = m /\ last.madeCloud
    /\ ExistsSync(local[m], Own(m))
    /\ last.atPull = local[m].files[Own(m)]

\* C9 - exchange idempotence: no call of syncWithCloud throws, and a call of
\* syncWithCloud by m that directly follows one by m changes neither m's
\* local directory nor the cloud directory (nor any other directory).
ExchangeIdempotent ==
  [][\A m \in Machines :
       (last'.op = "exchange" /\ last'.m = m)
       => /\ ~last'.raised
          /\ last'.again => (local' = local /\ cloud' = cloud)]_vars

ExchangeIdempotentWitness ==
  \E m \in Machines :
    /\ last.op = "exchange" /\ last.m = m /\ last.again /\ ~last.raised
    /\ ~ExistsSync(local[m], Own(m))
    /\ \E n \in PeerFiles(m) : local[m].files[n] = cloud.files[n] /\ ExistsSync(cloud, n)

\* C10 - missing-directory tolerance: a call of syncWithCloud by m against a
\* cloud folder that does not exist creates it without throwing, and the
\* cloud's usage-m.json then equals the local one; a call of syncFromCloud by
\* m whose local directory does not exist while the cloud folder does creates
\* the local directory, and every peer usage file that parses ends up in it.
MissingDirectoryTolerance ==
  [][\A m \in Machines :
       /\ (last'.op = "exchange" /\ last'.m = m /\ ~cloud.exists)
          => /\ cloud'.exists /\ ~last'.raised
             /\ cloud'.files[Own(m)] = local'[m].files[Own(m)]
       /\ (last'.op = "pull" /\ last'.m = m /\ ~local[m].exists /\ cloud.exists)
          => /\ local'[m].exists /\ ~last'.raised
             /\ \A n \in PeerFiles(m) :
                  ParsesAsJSON(cloud.files[n]) => local'[m].files[n] = cloud.files[n]]_vars

MissingDirectoryToleranceWitness ==
  \E m \in Machines :
    /\ last.op = "pull" /\ last.m = m /\ last.madeLocal
    /\ \E n \in PeerFiles(m) : ParsesAsJSON(cloud.files[n]) /\ local[m].files[n] = cloud.files[n]

\* C11 - push with no local file: when m has no local usage-m.json, a call
\* of syncToCloud by m does not throw, leaves every entry of the cloud
\* directory as it was (a usage-m.json already there keeps its content) and
\* leaves m's local directory as it was.
PushWithoutLocalFile ==
  [][\A m \in Machines :
       (last'.op = "push" /\ last'.m = m /\ ~ExistsSync(local[m], Own(m)))
       => /\ ~last'.raised
          /\ \A n \in Names : cloud'.files[n] = cloud.files[n]
          /\ local'[m] = local[m]]_vars

PushWithoutLocalFileWitness ==
  \E m \in Machines :
    /\ last.op = "push" /\ last.m = m /\ ~last.raised
    /\ ~ExistsSync(local[m], Own(m))
    /\ ParsesAsJSON(cloud.files[Own(m)])

\* C12 - pull with no cloud folder: when the cloud folder does not exist, a
\* call of syncFromCloud by m does not throw and changes nothing: it creates
\* neither the cloud folder nor the local directory and touches no local file.
PullWithoutCloudDir ==
  [][\A m \in Machines :
       (last'.op = "pull" /\ last'.m = m /\ ~cloud.exists)
       => /\ ~last'.raised
          /\ ~last'.madeLocal /\ ~last'.madeCloud
          /\ local' = local /\ cloud' = cloud]_vars

PullWithoutCloudDirWitness ==
  \E m \in Machines :
    /\ last.op = "pull" /\ last.m = m /\ ~last.raised
    /\ ~cloud.exists /\ ~local[m].exists

\* C13 - pull considers usage files only: every local file that a call of
\* syncFromCloud by m creates or modifies is named usage-*.json and equals
\* the cloud file of the same name; a cloud entry with any other name
\* (config.json) is never copied.
PullOnlyUsageFiles ==
  [][\A m \in Machines :
       (last'.op = "pull" /\ last'.m = m)
       => \A n \in Names :
            /\ local'[m].files[n] # local[m].files[n]
               => IsUsageFile(n) /\ local'[m].files[n] = cloud.files[n]
            /\ ~IsUsageFile(n) => local'[m].files[n] = local[m].files[n]]_vars

PullOnlyUsageFilesWitness ==
  \E m \in Machines :
    /\ last.op = "pull" /\ last.m = m /\ last.madeLocal
    /\ ExistsSync(cloud, ConfigFile) /\ ParsesAsJSON(cloud.files[ConfigFile])
    /\ ~ExistsSync(local[m], ConfigFile)
    /\ \E n \in PeerFiles(m) : ExistsSync(local[m], n) /\ local[m].files[n] = cloud.files[n]

\* ------------------------------------------- properties of the phased runs
\* No machine is between the push and the pull of an exchange.
Quiescent == \A m \in Machines : pc[m] = "idle"

\* The cloud holds what every machine last pushed, and no exchange replaced a
\* machine's own file by another machine's or by an older one.
OwnFilesAuthoritative ==
  \A m \in Machines :
    pushed[m] # Absent
    => /\ cloud.files[Own(m)] = pushed[m]
       /\ local[m].files[Own(m)].owner = m
       /\ local[m].files[Own(m)].lastSync >= pushed[m].lastSync

VisibleAfterPushThenPull ==
  [][\A m \in Machines :
       (last'.op = "pullPhase" /\ last'.m = m)
       => \A p \in Machines \ {m} :
            pushed[p] # Absent => local'[m].files[Own(p)] = pushed[p]]_vars

\* C5, second half: eventually every machine's local directory holds, for
\* good, the current record file of every other machine.
EventuallyAllVisible ==
  <>[](\A m \in Machines : \A p \in Machines \ {m} :
         ExistsSync(local[p], Own(p)) => local[m].files[Own(p)] = local[p].files[Own(p)])

ObservedKeys(observed) == {SessionKey(observed.sessions[i]) : i \in 1..Len(observed.sessions)}

\* The identifiers of the sessions are pairwise distinct.
DistinctKeys(observed) ==
  \A i, j \in 1..Len(observed.sessions) :
    i # j => SessionKey(observed.sessions[i]) # SessionKey(observed.sessions[j])

\* The identifiers of the record set a cycle loads from a file.
StoredKeys(file) == DOMAIN LoadExistingData(ThisMachine, file).sessions

\* C14 - new/updated counting: in a sync cycle whose observed sessions have
\* pairwise distinct identifiers, the new count is the number of observed
\* identifiers the record set did not hold before the cycle and the updated
\* count the number it held; so [R, S] on a record set with R and without S
\* counts 1 new and 1 updated.  A cycle that completes logs these counts.
NewUpdatedCounting ==
  (cycle.merged /\ DistinctKeys(cycle.observed))
  => /\ cycle.newCount = Cardinality(ObservedKeys(cycle.observed) \ StoredKeys(cycle.before))
     /\ cycle.updatedCount = Cardinality(ObservedKeys(cycle.observed) \cap StoredKeys(cycle.before))
     /\ ~cycle.raised
        => /\ disk.syncs[Len(disk.syncs)].newSessions = cycle.newCount
           /\ disk.syncs[Len(disk.syncs)].updatedSessions = cycle.updatedCount

NewUpdatedCountingWitness ==
  /\ cycle.merged /\ ~cycle.raised
  /\ cycle.observed.sessions = <<SessionR(2), SessionS>>
  /\ SessionKey(SessionR(2)) \in StoredKeys(cycle.before)
  /\ SessionKey(SessionS) \notin StoredKeys(cycle.before)
  /\ cycle.newCount = 1 /\ cycle.updatedCount = 1
  /\ disk.syncs[Len(disk.syncs)].newSessions = 1
  /\ disk.syncs[Len(disk.syncs)].updatedSessions = 1

\* The sessions of a record set without their syncedAt stamps.
WithoutStamps(sessions) == [i \in DOMAIN sessions |-> [sessions[i] EXCEPT !.syncedAt = 0]]

\* C15 - idempotent merge (content): when the first cycle starts from an
\* empty record set and the second cycle observes the same sessions as the
\* first, the record set after the second holds the same identifiers and the
\* same records as after the first, syncedAt and lastSync apart.
IdempotentMerge ==
  [][(cycle.n = 1 /\ StoredKeys(cycle.before) = {} /\ cycle'.n = 2 /\ cycle'.again)
     => /\ ~cycle'.raised
        /\ disk'.kind = disk.kind
        /\ DOMAIN disk'.sessions = DOMAIN disk.sessions
        /\ WithoutStamps(disk'.sessions) = WithoutStamps(disk.sessions)
        /\ WithoutStamps(cycle'.returned.sessions) = WithoutStamps(cycle.returned.sessions)]_vars

IdempotentMergeWitness ==
  /\ cycle.n = 2 /\ cycle.again /\ cycle.merged /\ ~cycle.raised
  /\ cycle.before.kind = "json" /\ Len(cycle.before.syncs) = 1
  /\ cycle.observed.sessions = <<SessionR(1), SessionS>>
  /\ WithoutStamps(disk.sessions) = WithoutStamps(cycle.before.sessions)
  /\ disk.sessions # cycle.before.sessions

\* C16 - a sync cycle always completes: whatever file the cycle finds (none,
\* one that does not parse, or a record file, with or without a `syncs` log)
\* and whatever ccusage returns, sync() does not throw and returns a record
\* set.
SyncAlwaysCompletes ==
  cycle.n > 0 => (~cycle.raised /\ cycle.returned.kind = "json")

\* C18 - no history loss in merge: a sync cycle on a readable record file
\* leaves a readable record file that holds every identifier held before; it
\* changes only the records whose identifiers occur among the sessions it
\* observed, adds no other identifier and leaves every other record as it
\* was.  So an identifier once stored stays stored over any run of cycles.
NoHistoryLoss ==
  [][(cycle'.n = cycle.n + 1 /\ disk.kind = "json")
     => /\ disk'.kind = "json"
        /\ DOMAIN disk.sessions \subseteq DOMAIN disk'.sessions
        /\ DOMAIN disk'.sessions \subseteq DOMAIN disk.sessions \cup ObservedKeys(cycle'.observed)
        /\ \A i \in DOMAIN disk.sessions \ ObservedKeys(cycle'.observed) :
             disk'.sessions[i] = disk.sessions[i]]_vars

NoHistoryLossWitness ==
  /\ cycle.n = MaxCycles /\ cycle.merged /\ ~cycle.raised
  /\ cycle.observed.sessions = <<SessionS>>
  /\ SessionKey(SessionR(1)) \in DOMAIN cycle.before.sessions
  /\ SessionKey(SessionS) \notin DOMAIN cycle.before.sessions
  /\ DOMAIN disk.sessions = {SessionKey(SessionR(1)), SessionKey(SessionS)}
  /\ disk.sessions[SessionKey(SessionR(1))] = cycle.before.sessions[SessionKey(SessionR(1))]
  /\ disk.sessions[SessionKey(SessionR(1))].totalCost = 2

\* C17 - a sync cycle ends with the exchange: when the cloud folder exists,
\* the step by which a sync cycle of m saves m's record set leaves the
\* cloud's usage-m.json equal to the file the cycle saved.
SyncCycleExchanges ==
  [][\A m \in Machines :
       (last'.op = "save" /\ last'.m = m /\ cloud.exists)
       => cloud'.files[Own(m)] = local'[m].files[Own(m)]]_vars

\* ------------------------------- properties of the interleaved file operations
\* Every machine has completed its calls of syncWithCloud.
AllExchangesDone ==
  \A m \in Machines : proc[m].at = "idle" /\ proc[m].exchanges = MaxExchanges

\* Once all calls have completed, the cloud's usage-m.json equals the local
\* usage-m.json of every machine m that has one.
CloudEqualsLocalWhenDone ==
  [](AllExchangesDone
     => \A m \in Machines :
          ExistsSync(local[m], Own(m)) => cloud.files[Own(m)] = local[m].files[Own(m)])

\* A file operation changes the cloud's usage-m.json only if it is m's.
OnlyOwnerWrites ==
  [][\A m \in Machines :
       cloud'.files[Own(m)] # cloud.files[Own(m)] => proc'[m] # proc[m]]_vars

\* C19 - concurrent exchanges: in every interleaving of the file operations
\* of the machines' calls of syncWithCloud, no machine writes the cloud file
\* of another, and once all calls have completed the cloud's usage-m.json
\* equals m's local usage-m.json, as after the calls run one after another.
ConcurrentExchanges == OnlyOwnerWrites /\ CloudEqualsLocalWhenDone

ConcurrentExchangesWitness ==
  /\ AllExchangesDone
  /\ \A m \in Machines :
       /\ ExistsSync(local[m], Own(m))
       /\ cloud.files[Own(m)] = local[m].files[Own(m)]
       /\ \A p \in Machines \ {m} : local[m].files[Own(p)] = local[p].files[Own(p)]

\* C20 - torn cloud files never reach the local directory: no local copy of
\* a peer's usage file holds content that does not parse, whatever the peers
\* write to the cloud folder while a pull runs.
NoTornLocalCopy ==
  \A m \in Machines : \A n \in PeerFiles(m) :
    ExistsSync(local[m], n) => ParsesAsJSON(local[m].files[n])

\* ------------------------------------ properties of a cloud folder out of reach
\* C21 - fatal setup failure: when the cloud folder is missing and cannot be
\* created, a call of syncToCloud or syncWithCloud by m throws, and neither
\* the cloud folder nor any local directory is created or changed.
FatalSetupFailure ==
  [][\A m \in Machines :
       (last'.op \in {"push", "exchange"} /\ last'.m = m /\ MkdirThrows(cloud))
       => /\ last'.raised
          /\ ~last'.madeCloud /\ ~last'.madeLocal
          /\ cloud' = cloud /\ local' = local]_vars

FatalSetupFailureWitness ==
  \E m \in Machines :
    /\ last.op = "exchange" /\ last.m = m /\ last.raised
    /\ MkdirThrows(cloud)
    /\ ~ExistsSync(local[m], Own(m))
    /\ \E p \in Machines \ {m} : ExistsSync(local[p], Own(p))

\* ------------------------------------ more properties of the sync cycles
\* C22 - missing observation source: a sync cycle to which ccusage returns
\* null or an object without `sessions` does not throw, returns the record
\* set it loaded and leaves the record file as it found it.
MissingSourceIsNoOp ==
  (cycle.n > 0 /\ (~cycle.observed.ok \/ ~cycle.observed.hasSessions))
  => /\ ~cycle.raised /\ ~cycle.merged
     /\ disk = cycle.before
     /\ cycle.returned = LoadExistingData(ThisMachine, cycle.before)
     /\ cycle.newCount = 0 /\ cycle.updatedCount = 0

MissingSourceIsNoOpWitness ==
  /\ cycle.n > 0 /\ cycle.observed = CcusageNull /\ ~cycle.raised
  /\ cycle.before.kind = "json" /\ cycle.before.hasSyncs
  /\ DOMAIN cycle.before.sessions # {}
  /\ disk = cycle.before /\ cycle.returned = disk

\* ------------------------------------------ properties of the direct calls
\* C23 - load is never fatal: loadExistingData always returns a record set
\* (it does not throw): the parsed file when there is a machine id and its
\* file exists and parses, and otherwise (no machine id, no file, a file that
\* does not parse) the empty record set, with no sessions and an empty log.
LoadNeverFatal ==
  probe.fn = "loadExistingData"
  => LET machineId == probe.args[1]
         file == probe.args[2]
     IN /\ probe.result.kind = "json"
        /\ (Truthy(machineId) /\ file.kind = "json") => probe.result = file
        /\ (~Truthy(machineId) \/ file.kind # "json")
           => /\ DOMAIN probe.result.sessions = {}
              /\ probe.result.hasSyncs /\ probe.result.syncs = <<>>

LoadNeverFatalWitness ==
  /\ probe.fn = "loadExistingData"
  /\ probe.args[1] = ThisMachine /\ probe.args[2] = CorruptDataFile
  /\ probe.result.kind = "json" /\ probe.result.syncs = <<>>

\* C24 - the sync log is append-only: every sync cycle that runs the merge
\* leaves a log that is the log it loaded followed by exactly one new entry,
\* and the entry's totalSessions is the number of records of the saved set.
SyncLogAppendOnly ==
  [][(cycle'.n = cycle.n + 1 /\ cycle'.merged)
     => LET old == LoadExistingData(ThisMachine, disk).syncs
        IN /\ Len(disk'.syncs) = Len(old) + 1
           /\ SubSeq(disk'.syncs, 1, Len(old)) = old
           /\ disk'.syncs[Len(disk'.syncs)].totalSessions = Cardinality(DOMAIN disk'.sessions)]_vars

\* The usage files of a listing that parse and hold a record under id, by
\* their position in the listing.
HoldersOf(id, dir, listing) ==
  {i \in 1..Len(listing) :
     /\ IsUsageFile(listing[i])
     /\ dir.files[listing[i]].kind = "json"
     /\ id \in DOMAIN dir.files[listing[i]].sessions}

\* C25 - aggregation: loadAllData returns a record for exactly the
\* identifiers held by the usage-*.json files of the data directory that
\* parse; each record is the one of the last file of the listing that holds
\* the identifier, tagged with that file's machine id; files that do not
\* parse and entries that are no usage files contribute nothing and stop
\* nothing.
Aggregation ==
  probe.fn = "loadAllData"
  => LET dir == probe.args[1]
         listing == probe.args[2]
         held == {id \in UNION {DOMAIN dir.files[n].sessions : n \in Names} :
                    dir.exists /\ HoldersOf(id, dir, listing) # {}}
     IN /\ DOMAIN probe.result.sessions = held
        /\ \A id \in held :
             LET last_i == CHOOSE i \in HoldersOf(id, dir, listing) :
                             \A j \in HoldersOf(id, dir, listing) : j <= i
                 file == listing[last_i]
             IN probe.result.sessions[id] = Tagged(dir.files[file].sessions[id], MachineIdOf(file))

AggregationWitness ==
  /\ probe.fn = "loadAllData"
  /\ probe.args[1].files[StrangerFile] = CorruptDataFile
  /\ probe.args[1].files[ConfigFile].kind = "json"
  /\ Len(probe.args[2]) > 3
  /\ probe.args[2][1] = StrangerFile
  /\ probe.args[2][2] = UsageFile("b")
  /\ probe.args[2][3] = UsageFile("a")
  /\ DOMAIN probe.result.sessions = {SessionKey(SessionR(1)), SessionKey(SessionS)}
  /\ probe.result.sessions[SessionKey(SessionR(1))].machineId = "a"
  /\ probe.result.sessions[SessionKey(SessionR(1))].totalCost = 1
  /\ probe.result.sessions[SessionKey(SessionS)].machineId = "b"

\* The position of the last session of the observed list whose identifier
\* is id.
LastObserved(observed, id) ==
  CHOOSE i \in 1..Len(observed.sessions) :
    /\ SessionKey(observed.sessions[i]) = id
    /\ \A j \in 1..Len(observed.sessions) : SessionKey(observed.sessions[j]) = id => j <= i

\* C26 - full replacement on merge: after the merge of a cycle, the record
\* under the identifier of an observed session holds the fields of the last
\* observed session with that identifier and nothing of the record stored
\* before, plus projectPath, projectName and syncedAt; a cycle that completes
\* saves that record.
FullReplacement ==
  cycle.merged
  => \A id \in ObservedKeys(cycle.observed) :
       LET session == cycle.observed.sessions[LastObserved(cycle.observed, id)]
           stored == cycle.sessions[id]
       IN /\ DOMAIN stored = DOMAIN session \cup {"projectPath", "projectName", "syncedAt"}
          /\ \A f \in DOMAIN session \ {"projectPath"} : stored[f] = session[f]
          /\ stored.projectPath \in {session.projectPath, DecodeProjectPath(session.sessionId)}
          /\ stored.projectName = GetProjectName(stored.projectPath)
          /\ stored.syncedAt = cycle.n
          /\ ~cycle.raised => disk.sessions[id] = stored

FullReplacementWitness ==
  /\ cycle.merged /\ ~cycle.raised
  /\ cycle.observed.sessions = <<SessionR(2), SessionNoTime>>
  /\ SessionKey(SessionNoTime) \in DOMAIN cycle.before.sessions
  /\ cycle.before.sessions[SessionKey(SessionNoTime)].startTime = <<"t">>
  /\ cycle.before.sessions[SessionKey(SessionNoTime)].totalCost = 2
  /\ disk.sessions[SessionKey(SessionNoTime)].startTime = Undefined
  /\ disk.sessions[SessionKey(SessionNoTime)].totalCost = 1

\* A field of a session holds a value: it is neither missing nor ''.
Present(value) == value # Undefined /\ value # Null /\ value # <<>>

\* The merge key the derivation is to give.
KeyOf(session) ==
  IF Present(session.sessionId) THEN session.sessionId
  ELSE IF Present(session.id) THEN session.id
       ELSE session.projectPath \o <<"-">> \o session.startTime

\* C27 - record identifier derivation: the merge key of a session is its
\* sessionId when present, otherwise its id when present, otherwise
\* projectPath, a dash and startTime; and the merge stores two sessions as
\* one record if and only if their keys are equal.
KeyDerivation ==
  /\ probe.fn = "sessionKey" => probe.result = KeyOf(probe.args[1])
  /\ probe.fn = "mergeLoop"
     => /\ DOMAIN probe.result.sessions = {KeyOf(probe.args[1]), KeyOf(probe.args[2])}
        /\ Cardinality(DOMAIN probe.result.sessions) = 1
           <=> KeyOf(probe.args[1]) = KeyOf(probe.args[2])

KeyDerivationWitness ==
  /\ probe.fn = "mergeLoop"
  /\ probe.args[1].sessionId = Undefined /\ probe.args[1].id = <<>>
  /\ probe.args[1].projectPath = <<"/", "p">> /\ probe.args[1].startTime = <<"t">>
  /\ probe.args[2].sessionId = <<>> /\ probe.args[2].id = <<"/", "p", "-", "t">>
  /\ DOMAIN probe.result.sessions = {<<"/", "p", "-", "t">>}
  /\ probe.result.newCount = 1 /\ probe.result.updatedCount = 1

\* A string with every dash replaced by a slash.
DashesToSlashes(string) == [i \in 1..Len(string) |-> IF string[i] = "-" THEN "/" ELSE string[i]]

\* C28 - project path derivation: the stored projectPath is the session's
\* projectPath when that is present and not 'Unknown Project'; otherwise it
\* is the session's sessionId with every dash replaced by a slash, and null
\* when there is no sessionId that starts with a dash.
ProjectPathDerivation ==
  probe.fn = "storedSession"
  => LET session == probe.args[1]
     IN probe.result.projectPath =
          IF Present(session.projectPath) /\ session.projectPath # UnknownProject
          THEN session.projectPath
          ELSE IF Present(session.sessionId) /\ Head(session.sessionId) = "-"
               THEN DashesToSlashes(session.sessionId)
               ELSE Null

ProjectPathDerivationWitness ==
  /\ probe.fn = "storedSession"
  /\ probe.args[1].projectPath = UnknownProject
  /\ probe.args[1].sessionId = <<"-", "u", "-", "r">>
  /\ probe.result.projectPath = <<"/", "u", "/", "r">>
  /\ probe.result.projectName = <<"r">>

\* C29 - count bookkeeping: in every sync cycle that merges observed
\* sessions, the new and the updated count add up to the number of observed
\* sessions, the new count is the number of distinct observed identifiers the
\* record set did not hold before (every further occurrence counts as
\* updated), and the record set ends with as many records as it held before
\* plus the new count.  A cycle that completes logs these three numbers.
CountBookkeeping ==
  cycle.merged
  => /\ cycle.newCount + cycle.updatedCount = Len(cycle.observed.sessions)
     /\ cycle.newCount = Cardinality(ObservedKeys(cycle.observed) \ StoredKeys(cycle.before))
     /\ Cardinality(DOMAIN cycle.sessions) = Cardinality(StoredKeys(cycle.before)) + cycle.newCount
     /\ ~cycle.raised
        => LET logged == disk.syncs[Len(disk.syncs)]
           IN /\ logged.newSessions + logged.updatedSessions = Len(cycle.observed.sessions)
              /\ logged.totalSessions = Cardinality(StoredKeys(cycle.before)) + logged.newSessions
              /\ logged.totalSessions = Cardinality(DOMAIN disk.sessions)

CountBookkeepingWitness ==
  /\ cycle.merged /\ ~cycle.raised
  /\ StoredKeys(cycle.before) = {SessionKey(SessionS)}
  /\ cycle.observed.sessions = <<SessionR(1), SessionR(2)>>
  /\ disk.syncs[Len(disk.syncs)].newSessions = 1
  /\ disk.syncs[Len(disk.syncs)].updatedSessions = 1
  /\ disk.syncs[Len(disk.syncs)].totalSessions = 2

\* ------------------------------------------------ properties of peer snapshots
\* The states the record file of machine p can have at a push: a record set
\* of p with one of its stamps.
PushStates(p) == {RecordFile(p, v) : v \in 0..MaxSync}

\* C30 - peer snapshots are genuine: in every reachable state the copy a
\* machine holds of a peer's usage file is a state the peer's own record file
\* had at one of the peer's pushes.
PeerSnapshotsGenuine ==
  \A m \in Machines : \A p \in Machines \ {m} :
    ExistsSync(local[m], Own(p)) => local[m].files[Own(p)] \in PushStates(p)

\* C31 - pull never removes or degrades local peer data: no step deletes a
\* copy a machine holds of a peer's usage file, and a step that finds the
\* peer's file in the cloud folder missing or not parseable leaves that copy
\* as it was.
PullKeepsPeerData ==
  [][\A m \in Machines : \A n \in PeerFiles(m) :
       /\ ExistsSync(local[m], n) => ExistsSync(local'[m], n)
       /\ (ExistsSync(local[m], n) /\ ~ParsesAsJSON(cloud.files[n]))
          => local'[m].files[n] = local[m].files[n]]_vars

====
